---------------------------- MODULE Spec2Model ----------------------------
(***************************************************************************)
(* The caption resolution engine of the Cronkite browser extension.        *)
(*                                                                         *)
(* The repository holds two variants of the popup script:                  *)
(*   "popup"   src/extension/popup.js   (XML cascade: page URL, then four  *)
(*                                       timed-text endpoint probes)       *)
(*   "part002" src/unnamed/part_002     (one json3 request: page URL, or   *)
(*                                       else the timed-text endpoint)     *)
(* The variable `variant` says which of the two scripts the popup runs.    *)
(*                                                                         *)
(* Lengths stand for texts: a transcript or an article is modelled by the  *)
(* number of characters the parser produced from the response body.        *)
(*                                                                         *)
(* Specifications:                                                         *)
(*   Spec        the click handler, one run after the other                *)
(*   SpecUI      the same with further clicks and the health check         *)
(*   SpecLocator getYouTubeCaptionTrackUrl over all track lists            *)
(*   SpecJson3   parseJson3Transcript over lists of events                 *)
(*   SpecXml     parseXmlTranscript over lists of <text> nodes             *)
(***************************************************************************)
EXTENDS Naturals, Sequences, FiniteSets

VARIABLES
  variant,        \* which popup script is loaded
  tabKind,        \* what the active tab's URL is
  page,           \* the tab's ytInitialPlayerResponse caption structure
  pc,             \* position of the click handler
  pageUrl,        \* fetchYouTubeTranscript: pageUrl / captionUrl (0 = null)
  idx,            \* fetchYouTubeTranscript: position in `attempts`
  log,            \* caption requests of this call, in issue order
  lastResp,       \* the response the call handled last
  ytStatus,       \* fetchYouTubeTranscript: "none" | "running" | "returned" | "threw"
  ytError,        \* the Error thrown by fetchYouTubeTranscript ("" = none)
  contentLen,     \* length of contentText in the click handler (0 = unset)
  posted,         \* number of POST /analyse requests of this run
  loadingShown,   \* loading.style.display = 'block'
  btnDisabled,    \* analyzeBtn.disabled
  errorMsg,       \* errorBox text ("" = hidden)
  resultsShown,   \* resultsPanel visible, analyzeBtn hidden
  closed,         \* window.close() was called
  analysed,       \* how POST /analyse of this run ended ("none" = not yet)
  queued,         \* handler runs started by further clicks, at await tabs.query
  serverPc,       \* checkServer: "pending" (awaiting /health) | "done"
  serverOffline,  \* checkServer found the backend offline
  shownNone,      \* messages shown so far for runs without any caption track
  shownFound,     \* messages shown so far for runs whose captions exist
  parsePc,        \* the parser on its own: "off" | "ready" | "done"
  parseIn,        \* the parser's input (events or text nodes)
  parseOut        \* the parser's output (a string, as a sequence of characters)

vars == <<variant, tabKind, page, pc, pageUrl, idx, log, lastResp, ytStatus, ytError,
          contentLen, posted, loadingShown, btnDisabled, errorMsg,
          resultsShown, closed, analysed, queued, serverPc, serverOffline,
          shownNone, shownFound, parsePc, parseIn, parseOut>>

\* the parser under test on its own
parseVars == <<parsePc, parseIn, parseOut>>
\* further clicks and the health check
bgVars == <<queued, serverPc, serverOffline>>
\* what failed runs have shown so far
histVars == <<shownNone, shownFound>>

---------------------------------------------------------------------------
(* Bounds                                                                  *)

\* longest captionTracks list drawn for the Locator on its own
MaxTracks == 3
\* longest captionTracks list drawn for a whole analysis run
MaxPageTracks == 1
\* most handler runs waiting at tabs.query behind the one that is followed
MaxQueued == 1
\* longest segs list of a json3 event
MaxSegs == 2
\* longest events list of a json3 payload
MaxEvents == 3
\* most <text> nodes of a timed-text document
MaxNodes == 3

(* Program constants                                                       *)

\* text.length >= 50
MinLen == 50
\* contentText.length < 100
MinArticleLen == 100

---------------------------------------------------------------------------
(* CaptionTrackLocator: getYouTubeCaptionTrackUrl                          *)

\* languageCode values: English, a regional variant, another language,
\* and "undef" for a track without a languageCode
Langs == {"en", "en-GB", "fr", "undef"}
\* kind values: 'asr' (auto-generated) or anything else (human-authored)
Kinds == {"manual", "asr"}

\* one entry of captionTracks; hasUrl = the entry has a non-empty baseUrl
Track == [languageCode : Langs, kind : Kinds, hasUrl : BOOLEAN]

TrackSeqs(n) == UNION {[1..k -> Track] : k \in 0..n}

\* the page structure: no ytInitialPlayerResponse / captions at all, a
\* structure whose access throws (captionTracks is no array), or a list
Absent == [shape |-> "absent", tracks |-> << >>]
Malformed == [shape |-> "malformed", tracks |-> << >>]
Pages(n) == {Absent, Malformed} \cup
            {[shape |-> "tracks", tracks |-> s] : s \in TrackSeqs(n)}

\* t.languageCode?.startsWith('en')
StartsWithEn(t) == t.languageCode \in {"en", "en-GB"}

\* Array.prototype.find over the indices S of the elements that satisfy
\* the callback: the first of them, 0 (undefined) if there is none
Find(S) == IF S = {} THEN 0 ELSE CHOOSE i \in S : \A j \in S : i <= j

IsManualEn(t) == t.languageCode = "en" /\ t.kind # "asr"
IsEn(t) == t.languageCode = "en"

\* a Locator that forgets the manual preference (first English of any kind)
PickNoManualPreference(tracks) ==
  LET b == Find({i \in 1..Len(tracks) : IsEn(tracks[i])})
      c == Find({i \in 1..Len(tracks) : StartsWithEn(tracks[i])})
  IN  IF b # 0 THEN b ELSE IF c # 0 THEN c ELSE 1

\* a Locator without the regional step and with the last track as fallback
PickLastFallback(tracks) ==
  LET a == Find({i \in 1..Len(tracks) : IsManualEn(tracks[i])})
      b == Find({i \in 1..Len(tracks) : IsEn(tracks[i])})
      c == Find({i \in 1..Len(tracks) : StartsWithEn(tracks[i])})
  IN  IF a # 0 THEN a ELSE IF b # 0 THEN b ELSE IF c # 0 THEN c
      ELSE Len(tracks)

\* const pick = find(..) || find(..) || find(..) || tracks[0]  (1-based index)
Pick(tracks) ==
  LET a == Find({i \in 1..Len(tracks) : IsManualEn(tracks[i])})
      b == Find({i \in 1..Len(tracks) : IsEn(tracks[i])})
      c == Find({i \in 1..Len(tracks) : StartsWithEn(tracks[i])})
  IN  IF a # 0 THEN a ELSE IF b # 0 THEN b ELSE IF c # 0 THEN c ELSE 1

\* what the Locator hands back: 0 for null, else the index of the track
\* whose baseUrl it returns (the URL is identified by its track)
getYouTubeCaptionTrackUrl(p) ==
  IF p.shape = "absent" THEN 0          \* optional chaining gives undefined
  ELSE IF p.shape = "malformed" THEN 0  \* the access throws; catch returns null
  ELSE IF Len(p.tracks) = 0 THEN 0
  ELSE IF p.tracks[Pick(p.tracks)].hasUrl THEN Pick(p.tracks) ELSE 0

---------------------------------------------------------------------------
(* The popup scripts and the tab                                           *)

Variants == {"popup", "part002"}

\* the active tab's URL: a watch URL with an 11-character id, a YouTube
\* URL without one, or any other page
TabKinds == {"youtube", "youtube_noid", "article"}

\* /youtube\.com\/watch|youtu\.be\//.test(url)
isYouTubeUrl(k) == k \in {"youtube", "youtube_noid"}

\* an extractor that finds an id in every URL
extractVideoIdAlways(k) == TRUE

\* url.match(/(?:v=|youtu\.be\/)([a-zA-Z0-9_-]{11})/): TRUE = an id, FALSE = null
extractVideoId(k) == k = "youtube"

---------------------------------------------------------------------------
(* Messages                                                                *)

MsgNoVideoId == "Could not parse a YouTube video ID from this URL."
MsgNoArticle == "Could not find enough article text on this page."
MsgNoCaptions == "No captions found for this video."
MsgCaptionFetchFailed == "Caption fetch failed (status)."
MsgNoUsableCaptions == "No usable captions found for this video."
MsgFailedToFetch == "Failed to fetch"
MsgJsonSyntax == "Unexpected token in JSON"
MsgServerError == "Server error (status)"
MsgNoReceiver == "Could not establish connection. Receiving end does not exist."
MsgCannotConnect == "Cannot connect to backend. Check that the server is running."

\* err.message.toLowerCase().includes('fetch') || err.message.includes('connect')
MentionsFetchOrConnect(msg) ==
  msg \in {MsgCaptionFetchFailed, MsgFailedToFetch, MsgNoReceiver, MsgCannotConnect}

---------------------------------------------------------------------------
(* UI helpers                                                              *)

showLoading ==
  /\ loadingShown' = TRUE
  /\ btnDisabled' = TRUE
  /\ errorMsg' = ""

\* a showError that leaves the loading indicator as it is
showErrorNoHide(msg) ==
  /\ errorMsg' = msg
  /\ UNCHANGED loadingShown
  /\ btnDisabled' = FALSE

\* showError calls hideLoading, which enables the button again
showError(msg) ==
  /\ errorMsg' = msg
  /\ loadingShown' = FALSE
  /\ btnDisabled' = FALSE

\* the click handler's catch block
HandlerCatch(msg) ==
  IF MentionsFetchOrConnect(msg) THEN showError(MsgCannotConnect)
                                 ELSE showError(msg)

---------------------------------------------------------------------------
(* Caption requests and responses                                          *)

\* a request to the page-provided track URL with &fmt=<fmt>
PageReq(fmt) ==
  [target |-> "page", fmt |-> fmt, lang |-> "-", kind |-> "-",
   outcome |-> "inflight"]

\* a request to https://www.youtube.com/api/timedtext?v=<id>&...
EndpointReq(lang, kind, fmt) ==
  [target |-> "endpoint", fmt |-> fmt, lang |-> lang, kind |-> kind,
   outcome |-> "inflight"]

\* const attempts = [ lang=en, lang=en-GB, kind=asr&lang=en, kind=asr&lang=en-GB ]
attempts ==
  << EndpointReq("en", "manual", "default"),
     EndpointReq("en-GB", "manual", "default"),
     EndpointReq("en", "asr", "default"),
     EndpointReq("en-GB", "asr", "default") >>

\* lengths of the text a response body holds
BodyLens == {0, MinLen - 1, MinLen}

\* what a caption request ends in: the fetch rejects, resolves with a
\* non-success status, or resolves with a body (well-formed in the format
\* asked for or not; len = the text its recoverable nodes/segments hold)
NoResp == [net |-> "none", ok |-> FALSE, wellFormed |-> FALSE, len |-> 0]
Rejected == [net |-> "reject", ok |-> FALSE, wellFormed |-> FALSE, len |-> 0]
NotOk == [net |-> "resolve", ok |-> FALSE, wellFormed |-> FALSE, len |-> 0]
Responses ==
  {Rejected, NotOk} \cup
  {[net |-> "resolve", ok |-> TRUE, wellFormed |-> w, len |-> n] :
     w \in BOOLEAN, n \in BodyLens}

\* parseXmlTranscript: DOMParser never throws; on a malformed document the
\* <text> nodes it recovered are still joined, so the result is whatever
\* text the body holds
parseXmlTranscript(r) == r.len

\* resp.json() followed by parseJson3Transcript: json() rejects on a body
\* that is no JSON
JsonThrows(r) == ~r.wellFormed
parseJson3Transcript(r) == r.len

\* a threshold test that turns away a text of exactly 50 characters
UsableOffByOne(len) == len # 0 /\ len > MinLen

\* text && text.length >= 50
Usable(len) == len # 0 /\ len >= MinLen

\* how the call judges a response: "usable", or the way it failed
Judge(v, r) ==
  IF r.net = "reject" THEN "reject"
  ELSE IF ~r.ok THEN "status"
  ELSE IF v = "popup"
    THEN IF Usable(parseXmlTranscript(r)) THEN "usable" ELSE "short"
    ELSE IF JsonThrows(r) THEN "parsefail"
         ELSE IF Usable(parseJson3Transcript(r)) THEN "usable" ELSE "short"

\* the Error part_002 throws (or lets escape) for a failed request
Part002Error(outcome) ==
  CASE outcome = "reject" -> MsgFailedToFetch
    [] outcome = "status" -> MsgCaptionFetchFailed
    [] outcome = "parsefail" -> MsgJsonSyntax
    [] OTHER -> MsgNoUsableCaptions

\* the log with its in-flight (last) request completed
Completed(outcome) == [log EXCEPT ![Len(log)].outcome = outcome]

---------------------------------------------------------------------------
(* fetchYouTubeTranscript: the first request                               *)

\* a fetcher that requests the page URL without testing it for null
FirstRequestNoNullCheck(v, url) ==
  IF v = "popup" THEN PageReq("xml") ELSE PageReq("json3")

\* a fetcher that skips the page URL and starts with the endpoint
FirstRequestSkipPage(v, url) ==
  IF v = "popup" THEN attempts[1] ELSE EndpointReq("en", "manual", "json3")

\* the first caption request once the Locator's result is known:
\*   popup.js : if (pageUrl) fetch(pageUrl + fmt=xml), else attempts[0]
\*   part_002 : captionUrl + fmt=json3, else timedtext?v=..&lang=en&fmt=json3
FirstRequest(v, url) ==
  IF v = "popup"
    THEN IF url # 0 THEN PageReq("xml") ELSE attempts[1]
    ELSE IF url # 0 THEN PageReq("json3")
                    ELSE EndpointReq("en", "manual", "json3")

\* the requests the script can make for this call
Candidates(v, url) ==
  IF v = "popup"
    THEN (IF url # 0 THEN {PageReq("xml")} ELSE {}) \cup
         {attempts[i] : i \in 1..Len(attempts)}
    ELSE (IF url # 0 THEN {PageReq("json3")} ELSE {}) \cup
         {EndpointReq("en", "manual", "json3")}

---------------------------------------------------------------------------
(* What a failed resolution was about                                      *)

\* the page lists no caption track at all
NoTracks(p) == p.shape \in {"absent", "malformed"} \/ Len(p.tracks) = 0

\* the kind of failed call, from what the call itself saw:
\*   "found" the Locator supplied a track URL, or a response carried caption
\*           text (too short, or in an unparsable body)
\*   "none"  the page lists no track and every request was answered with a
\*           non-success status
\*   "other" anything else
RunClass(p, url, lg, r) ==
  IF url # 0 \/ (r.ok /\ r.len > 0) THEN "found"
  ELSE IF NoTracks(p) /\ \A i \in 1..Len(lg) : lg[i].outcome = "status"
    THEN "none"
    ELSE "other"

\* the message errorBox displays for a failed call is kept, by kind of call
Remember(class, msg) ==
  /\ shownNone' = IF class = "none" THEN shownNone \cup {msg} ELSE shownNone
  /\ shownFound' = IF class = "found" THEN shownFound \cup {msg} ELSE shownFound

---------------------------------------------------------------------------
(* Initial state: the popup has just been opened                           *)

InitRun ==
  /\ pc = "idle"
  /\ pageUrl = 0
  /\ idx = 0
  /\ log = << >>
  /\ lastResp = NoResp
  /\ ytStatus = "none"
  /\ ytError = ""
  /\ contentLen = 0
  /\ posted = 0
  /\ loadingShown = FALSE
  /\ btnDisabled = FALSE
  /\ errorMsg = ""
  /\ resultsShown = FALSE
  /\ closed = FALSE
  /\ analysed = "none"
  /\ queued = 0
  /\ serverPc = "pending"
  /\ serverOffline = FALSE
  /\ shownNone = {}
  /\ shownFound = {}

\* no parser is looked at on its own
ParserOff ==
  /\ parsePc = "off"
  /\ parseIn = << >>
  /\ parseOut = << >>

Init ==
  /\ variant \in Variants
  /\ tabKind \in TabKinds
  /\ page \in Pages(MaxPageTracks)
  /\ InitRun
  /\ ParserOff

---------------------------------------------------------------------------
(* The click handler                                                       *)

\* analyzeBtn 'click': errorBox hidden, then await chrome.tabs.query.
\* pc is the position of the one run that is followed step by step; a
\* click while that run is in progress is ClickAgain below.
Click ==
  /\ pc = "idle"
  /\ ~btnDisabled
  /\ ~resultsShown
  /\ ~closed
  /\ pc' = "query"
  /\ errorMsg' = ""
  /\ pageUrl' = 0
  /\ idx' = 0
  /\ log' = << >>
  /\ lastResp' = NoResp
  /\ ytStatus' = "none"
  /\ ytError' = ""
  /\ contentLen' = 0
  /\ posted' = 0
  /\ analysed' = "none"
  /\ UNCHANGED <<parseVars, bgVars, histVars,
                 variant, tabKind, page, loadingShown, btnDisabled,
                 resultsShown, closed>>

\* tabs.query resolved, YouTube URL without a video id: showError, return
QueryNoVideoId ==
  /\ pc = "query"
  /\ isYouTubeUrl(tabKind)
  /\ ~extractVideoId(tabKind)
  /\ showError(MsgNoVideoId)
  /\ pc' = "idle"
  /\ UNCHANGED <<parseVars, bgVars, analysed, histVars,
                 variant, tabKind, page, pageUrl, idx, log, lastResp,
                 ytStatus, ytError, contentLen, posted, resultsShown, closed>>

\* tabs.query resolved, YouTube URL with an id: showLoading, then
\* fetchYouTubeTranscript starts and awaits executeScript
QueryYouTube ==
  /\ pc = "query"
  /\ isYouTubeUrl(tabKind)
  /\ extractVideoId(tabKind)
  /\ showLoading
  /\ ytStatus' = "running"
  /\ pc' = "inject"
  /\ UNCHANGED <<parseVars, bgVars, analysed, histVars,
                 variant, tabKind, page, pageUrl, idx, log, lastResp,
                 ytError, contentLen, posted, resultsShown, closed>>

\* tabs.query resolved, any other URL: showLoading, await executeScript
QueryArticle ==
  /\ pc = "query"
  /\ ~isYouTubeUrl(tabKind)
  /\ showLoading
  /\ pc' = "extract"
  /\ UNCHANGED <<parseVars, bgVars, analysed, histVars,
                 variant, tabKind, page, pageUrl, idx, log, lastResp,
                 ytStatus, ytError, contentLen, posted, resultsShown, closed>>

\* lengths of the text extractArticleText finds
ArticleLens == {0, MinArticleLen - 1, MinArticleLen}

\* !contentText || contentText.length < 100: showError, return
ArticleTooShort ==
  /\ pc = "extract"
  /\ \E n \in ArticleLens :
       /\ n = 0 \/ n < MinArticleLen
       /\ contentLen' = n
  /\ showError(MsgNoArticle)
  /\ pc' = "idle"
  /\ UNCHANGED <<parseVars, bgVars, analysed, histVars,
                 variant, tabKind, page, pageUrl, idx, log, lastResp,
                 ytStatus, ytError, posted, resultsShown, closed>>

\* a handler that posts whatever text the page gave
ArticleFoundNoCheck ==
  /\ pc = "extract"
  /\ \E n \in ArticleLens : contentLen' = n
  /\ showLoading
  /\ posted' = posted + 1
  /\ pc' = "awaitAnalyse"
  /\ UNCHANGED <<parseVars, bgVars, analysed, histVars,
                 variant, tabKind, page, pageUrl, idx, log, lastResp,
                 ytStatus, ytError, resultsShown, closed>>

\* enough article text: showLoading and POST /analyse
ArticleFound ==
  /\ pc = "extract"
  /\ \E n \in ArticleLens :
       /\ ~(n = 0 \/ n < MinArticleLen)
       /\ contentLen' = n
  /\ showLoading
  /\ posted' = posted + 1
  /\ pc' = "awaitAnalyse"
  /\ UNCHANGED <<parseVars, bgVars, analysed, histVars,
                 variant, tabKind, page, pageUrl, idx, log, lastResp,
                 ytStatus, ytError, resultsShown, closed>>

---------------------------------------------------------------------------
(* fetchYouTubeTranscript                                                  *)

\* executeScript resolved with the Locator's result; the first caption
\* request is issued
ExecuteScript ==
  /\ pc = "inject"
  /\ pageUrl' = getYouTubeCaptionTrackUrl(page)
  /\ log' = << FirstRequest(variant, pageUrl') >>
  /\ idx' = IF log'[1].target = "endpoint" /\ variant = "popup" THEN 1 ELSE 0
  /\ pc' = "awaitCaption"
  /\ UNCHANGED <<parseVars, bgVars, analysed, histVars,
                 variant, tabKind, page, lastResp, ytStatus, ytError,
                 contentLen, posted, loadingShown, btnDisabled, errorMsg,
                 resultsShown, closed>>

\* a fetcher that goes on to the next probe after a usable response
CaptionUsableNoReturn ==
  /\ pc = "awaitCaption"
  /\ \E r \in Responses :
       /\ Judge(variant, r) = "usable"
       /\ lastResp' = r
       /\ idx < Len(attempts)
       /\ log' = Append(Completed("usable"), attempts[idx + 1])
       /\ idx' = idx + 1
  /\ UNCHANGED <<parseVars, bgVars, analysed, histVars,
                 variant, tabKind, page, pc, pageUrl, ytStatus, ytError,
                 contentLen, posted, loadingShown, btnDisabled, errorMsg,
                 resultsShown, closed>>

\* the response holds usable text: fetchYouTubeTranscript returns it; the
\* handler shows 'Got transcript' (part_002 and popup.js alike) and POSTs
\* it to /analyse
CaptionUsable ==
  /\ pc = "awaitCaption"
  /\ \E r \in Responses :
       /\ Judge(variant, r) = "usable"
       /\ lastResp' = r
       /\ contentLen' = IF variant = "popup" THEN parseXmlTranscript(r)
                                             ELSE parseJson3Transcript(r)
  /\ log' = Completed("usable")
  /\ ytStatus' = "returned"
  /\ showLoading
  /\ posted' = posted + 1
  /\ pc' = "awaitAnalyse"
  /\ UNCHANGED <<parseVars, bgVars, analysed, histVars,
                 variant, tabKind, page, pageUrl, idx, ytError,
                 resultsShown, closed>>

\* a fetcher that fires the next probe without awaiting the pending one
CaptionNextNoAwait ==
  /\ pc = "awaitCaption"
  /\ variant = "popup"
  /\ idx < Len(attempts)
  /\ log' = Append(log, attempts[idx + 1])
  /\ idx' = idx + 1
  /\ UNCHANGED <<parseVars, bgVars, analysed, histVars,
                 variant, tabKind, page, pc, pageUrl, lastResp, ytStatus,
                 ytError, contentLen, posted, loadingShown, btnDisabled,
                 errorMsg, resultsShown, closed>>

\* popup.js: the request failed (rejected, non-success status, or text
\* below the threshold) and probes remain: the next one is requested
CaptionNext ==
  /\ pc = "awaitCaption"
  /\ variant = "popup"
  /\ idx < Len(attempts)
  /\ \E r \in Responses :
       /\ Judge(variant, r) # "usable"
       /\ lastResp' = r
       /\ log' = Append(Completed(Judge(variant, r)), attempts[idx + 1])
  /\ idx' = idx + 1
  /\ UNCHANGED <<parseVars, bgVars, analysed, histVars,
                 variant, tabKind, page, pc, pageUrl, ytStatus, ytError,
                 contentLen, posted, loadingShown, btnDisabled, errorMsg,
                 resultsShown, closed>>

\* a fetcher that hands back whatever the last probe parsed
CaptionExhaustedPartial ==
  /\ pc = "awaitCaption"
  /\ variant = "popup"
  /\ idx = Len(attempts)
  /\ \E r \in Responses :
       /\ Judge(variant, r) # "usable"
       /\ lastResp' = r
       /\ log' = Completed(Judge(variant, r))
       /\ contentLen' = parseXmlTranscript(r)
  /\ ytStatus' = "returned"
  /\ showLoading
  /\ posted' = posted + 1
  /\ pc' = "awaitAnalyse"
  /\ UNCHANGED <<parseVars, bgVars, analysed, histVars,
                 variant, tabKind, page, pageUrl, idx, ytError,
                 resultsShown, closed>>

\* popup.js: the last probe failed too: throw 'No captions found', which
\* the handler's catch block shows
CaptionExhausted ==
  /\ pc = "awaitCaption"
  /\ variant = "popup"
  /\ idx = Len(attempts)
  /\ \E r \in Responses :
       /\ Judge(variant, r) # "usable"
       /\ lastResp' = r
       /\ log' = Completed(Judge(variant, r))
  /\ ytStatus' = "threw"
  /\ ytError' = MsgNoCaptions
  /\ HandlerCatch(MsgNoCaptions)
  /\ Remember(RunClass(page, pageUrl, log', lastResp'), errorMsg')
  /\ pc' = "idle"
  /\ UNCHANGED <<parseVars, bgVars, analysed,
                 variant, tabKind, page, pageUrl, idx, contentLen, posted,
                 resultsShown, closed>>

\* part_002: the one request failed: the rejection or SyntaxError escapes,
\* or 'Caption fetch failed' / 'No usable captions' is thrown; the
\* handler's catch block shows it
CaptionThrow ==
  /\ pc = "awaitCaption"
  /\ variant = "part002"
  /\ \E r \in Responses :
       /\ Judge(variant, r) # "usable"
       /\ lastResp' = r
       /\ log' = Completed(Judge(variant, r))
       /\ ytError' = Part002Error(Judge(variant, r))
       /\ HandlerCatch(Part002Error(Judge(variant, r)))
  /\ Remember(RunClass(page, pageUrl, log', lastResp'), errorMsg')
  /\ ytStatus' = "threw"
  /\ pc' = "idle"
  /\ UNCHANGED <<parseVars, bgVars, analysed,
                 variant, tabKind, page, pageUrl, idx, contentLen, posted,
                 resultsShown, closed>>

---------------------------------------------------------------------------
(* The backend request and the end of the run                              *)

\* fetch(BACKEND/analyse) rejected: caught, message 'Failed to fetch'
AnalyseRejected ==
  /\ pc = "awaitAnalyse"
  /\ HandlerCatch(MsgFailedToFetch)
  /\ analysed' = "rejected"
  /\ pc' = "idle"
  /\ UNCHANGED <<parseVars, bgVars, histVars,
                 variant, tabKind, page, pageUrl, idx, log, lastResp,
                 ytStatus, ytError, contentLen, posted, resultsShown, closed>>

\* !response.ok: throw new Error(err.detail || 'Server error N'), caught
AnalyseNotOk ==
  /\ pc = "awaitAnalyse"
  /\ HandlerCatch(MsgServerError)
  /\ analysed' = "notok"
  /\ pc' = "idle"
  /\ UNCHANGED <<parseVars, bgVars, histVars,
                 variant, tabKind, page, pageUrl, idx, log, lastResp,
                 ytStatus, ytError, contentLen, posted, resultsShown, closed>>

\* response.ok: popup.js sends the sidebar message without awaiting it and
\* calls showResults; part_002 shows 'Displaying results...' and awaits
\* chrome.tabs.sendMessage
AnalyseOk ==
  /\ pc = "awaitAnalyse"
  /\ IF variant = "popup"
       THEN /\ loadingShown' = FALSE
            /\ btnDisabled' = FALSE
            /\ resultsShown' = TRUE
            /\ pc' = "idle"
            /\ UNCHANGED errorMsg
       ELSE /\ showLoading
            /\ pc' = "awaitSidebar"
            /\ UNCHANGED resultsShown
  /\ analysed' = "ok"
  /\ UNCHANGED <<parseVars, bgVars, histVars,
                 variant, tabKind, page, pageUrl, idx, log, lastResp,
                 ytStatus, ytError, contentLen, posted, closed>>

\* part_002: sendMessage resolved: window.close()
SidebarShown ==
  /\ pc = "awaitSidebar"
  /\ closed' = TRUE
  /\ pc' = "idle"
  /\ UNCHANGED <<parseVars, bgVars, analysed, histVars,
                 variant, tabKind, page, pageUrl, idx, log, lastResp,
                 ytStatus, ytError, contentLen, posted, loadingShown,
                 btnDisabled, errorMsg, resultsShown>>

\* part_002: sendMessage rejected (no content script in the tab): caught
SidebarRejected ==
  /\ pc = "awaitSidebar"
  /\ HandlerCatch(MsgNoReceiver)
  /\ pc' = "idle"
  /\ UNCHANGED <<parseVars, bgVars, analysed, histVars,
                 variant, tabKind, page, pageUrl, idx, log, lastResp,
                 ytStatus, ytError, contentLen, posted, resultsShown, closed>>

\* popup.js resetBtn 'click': back from the results panel
Reset ==
  /\ resultsShown
  /\ resultsShown' = FALSE
  /\ errorMsg' = ""
  /\ UNCHANGED <<parseVars, bgVars, analysed, histVars,
                 variant, tabKind, page, pc, pageUrl, idx, log, lastResp,
                 ytStatus, ytError, contentLen, posted, loadingShown,
                 btnDisabled, closed>>

---------------------------------------------------------------------------
(* Further clicks, and the health check started when the popup loads       *)

\* a run of the handler is between its click and its last statement
RunInProgress == pc # "idle"

\* analyzeBtn 'click' while an earlier run has not finished: the listener
\* runs again (a disabled or hidden button delivers no click), hides
\* errorBox and awaits chrome.tabs.query. The new run is held at that await
\* until the run that is followed has finished.
ClickAgain ==
  /\ RunInProgress \/ queued > 0
  /\ ~btnDisabled
  /\ ~resultsShown
  /\ ~closed
  /\ queued < MaxQueued
  /\ queued' = queued + 1
  /\ errorMsg' = ""
  /\ UNCHANGED <<parseVars, serverPc, serverOffline, analysed, histVars,
                 variant, tabKind, page, pc, pageUrl, idx, log, lastResp,
                 ytStatus, ytError, contentLen, posted, loadingShown,
                 btnDisabled, resultsShown, closed>>

\* the run that was followed is over: a waiting run is followed from its
\* await chrome.tabs.query on, with its own locals
Resume ==
  /\ pc = "idle"
  /\ queued > 0
  /\ ~closed
  /\ queued' = queued - 1
  /\ pc' = "query"
  /\ pageUrl' = 0
  /\ idx' = 0
  /\ log' = << >>
  /\ lastResp' = NoResp
  /\ ytStatus' = "none"
  /\ ytError' = ""
  /\ contentLen' = 0
  /\ posted' = 0
  /\ analysed' = "none"
  /\ UNCHANGED <<parseVars, serverPc, serverOffline, histVars, variant,
                 tabKind, page, loadingShown, btnDisabled, errorMsg,
                 resultsShown, closed>>

\* checkServer: GET /health answered with a success status
HealthOk ==
  /\ serverPc = "pending"
  /\ ~closed
  /\ serverPc' = "done"
  /\ UNCHANGED <<parseVars, queued, serverOffline, analysed, histVars,
                 variant, tabKind, page, pc, pageUrl, idx, log, lastResp,
                 ytStatus, ytError, contentLen, posted, loadingShown,
                 btnDisabled, errorMsg, resultsShown, closed>>

\* checkServer: GET /health rejected, timed out after 2 s or answered with
\* a non-success status: 'Server offline', analyzeBtn.disabled = true
HealthFailed ==
  /\ serverPc = "pending"
  /\ ~closed
  /\ serverPc' = "done"
  /\ serverOffline' = TRUE
  /\ btnDisabled' = TRUE
  /\ UNCHANGED <<parseVars, queued, analysed, histVars, variant, tabKind,
                 page, pc, pageUrl, idx, log, lastResp, ytStatus, ytError,
                 contentLen, posted, loadingShown, errorMsg, resultsShown,
                 closed>>

Next ==
  \/ Click
  \/ QueryNoVideoId
  \/ QueryYouTube
  \/ QueryArticle
  \/ ArticleTooShort
  \/ ArticleFound
  \/ ExecuteScript
  \/ CaptionUsable
  \/ CaptionNext
  \/ CaptionExhausted
  \/ CaptionThrow
  \/ AnalyseRejected
  \/ AnalyseNotOk
  \/ AnalyseOk
  \/ SidebarShown
  \/ SidebarRejected
  \/ Reset

Spec == Init /\ [][Next]_vars

---------------------------------------------------------------------------
(* The popup as a whole: the click handler together with further clicks    *)
(* and the health check. What the Locator finds matters here only as       *)
(* "a track URL" or "null", so one page of each kind is drawn.             *)

UIPages ==
  {Absent,
   [shape |-> "tracks",
    tracks |-> << [languageCode |-> "en", kind |-> "manual", hasUrl |-> TRUE] >>]}

InitUI ==
  /\ variant \in Variants
  /\ tabKind \in TabKinds
  /\ page \in UIPages
  /\ InitRun
  /\ ParserOff

NextUI ==
  \/ Next
  \/ HealthOk
  \/ HealthFailed
  \/ ClickAgain
  \/ Resume

SpecUI == InitUI /\ [][NextUI]_vars

---------------------------------------------------------------------------
(* The Locator on its own: every captionTracks list up to MaxTracks, with  *)
(* the popup about to inject the script                                    *)

InitLocator ==
  /\ variant \in Variants
  /\ tabKind = "youtube"
  /\ page \in Pages(MaxTracks)
  /\ pc = "inject"
  /\ pageUrl = 0
  /\ idx = 0
  /\ log = << >>
  /\ lastResp = NoResp
  /\ ytStatus = "running"
  /\ ytError = ""
  /\ contentLen = 0
  /\ posted = 0
  /\ loadingShown = TRUE
  /\ btnDisabled = TRUE
  /\ errorMsg = ""
  /\ resultsShown = FALSE
  /\ closed = FALSE
  /\ analysed = "none"
  /\ queued = 0
  /\ serverPc = "done"
  /\ serverOffline = FALSE
  /\ shownNone = {}
  /\ shownFound = {}
  /\ parsePc = "off"
  /\ parseIn = << >>
  /\ parseOut = << >>

NextLocator == ExecuteScript

SpecLocator == InitLocator /\ [][NextLocator]_vars

---------------------------------------------------------------------------
(* The parsers on their texts. A string is a sequence of characters; the   *)
(* lengths used above are the lengths of what these operators return.      *)

\* \s
IsWs(c) == c \in {" ", "\n"}

\* String.prototype.replace(/\n/g, ' ')
NlToSp(str) == [i \in 1..Len(str) |-> IF str[i] = "\n" THEN " " ELSE str[i]]

\* Array.prototype.join('')
RECURSIVE Concat(_)
Concat(ss) == IF ss = << >> THEN << >> ELSE Head(ss) \o Concat(Tail(ss))

\* a join that puts nothing between the elements
JoinEmpty(ss) == Concat(ss)

\* Array.prototype.join(' ')
RECURSIVE JoinSp(_)
JoinSp(ss) ==
  IF ss = << >> THEN << >>
  ELSE IF Len(ss) = 1 THEN ss[1]
  ELSE ss[1] \o << " " >> \o JoinSp(Tail(ss))

\* String.prototype.trimStart
RECURSIVE TrimStart(_)
TrimStart(str) ==
  IF str # << >> /\ IsWs(str[1]) THEN TrimStart(Tail(str)) ELSE str

\* String.prototype.trimEnd
RECURSIVE TrimEnd(_)
TrimEnd(str) ==
  IF str # << >> /\ IsWs(str[Len(str)])
    THEN TrimEnd(SubSeq(str, 1, Len(str) - 1))
    ELSE str

\* a trim that leaves the string as it is
TrimNothing(str) == str

\* String.prototype.trim
Trim(str) == TrimEnd(TrimStart(str))

\* String.prototype.replace(/\s+/g, ' ')
RECURSIVE CollapseWs(_)
CollapseWs(str) ==
  IF str = << >> THEN << >>
  ELSE IF IsWs(str[1]) THEN << " " >> \o CollapseWs(TrimStart(Tail(str)))
  ELSE << str[1] >> \o CollapseWs(Tail(str))

---------------------------------------------------------------------------
(* parseJson3Transcript on its own                                         *)

\* the utf8 texts of segments: trailing space, leading newline
SegTexts == { << "a", " " >>, << "\n", "b" >> }

SegSeqs(n) == UNION {[1..k -> SegTexts] : k \in 0..n}

\* an event: without a segs field, or with a list of segments
Events(n) ==
  {[hasSegs |-> FALSE, segs |-> << >>]} \cup
  {[hasSegs |-> TRUE, segs |-> ss] : ss \in SegSeqs(n)}

\* data.events || []
EventLists(m, n) == UNION {[1..k -> Events(n)] : k \in 0..m}

\* e => e.segs
HasSegs(e) == e.hasSegs

\* e => e.segs.map(s => (s.utf8 || '').replace(/\n/g, ' ')).join('')
EventText(e) == Concat([i \in 1..Len(e.segs) |-> NlToSp(e.segs[i])])

\* events.filter(..).map(..).join(' ').replace(/\s+/g, ' ').trim()
parseJson3TranscriptText(events) ==
  LET kept == SelectSeq(events, HasSegs)
  IN Trim(CollapseWs(JoinSp([i \in 1..Len(kept) |-> EventText(kept[i])])))

InitJson3 ==
  /\ variant = "part002"
  /\ tabKind = "youtube"
  /\ page = Absent
  /\ InitRun
  /\ parsePc = "ready"
  /\ parseIn \in EventLists(MaxEvents, MaxSegs)
  /\ parseOut = << >>

\* const text = parseJson3Transcript(data)
ParseJson3 ==
  /\ parsePc = "ready"
  /\ parseOut' = parseJson3TranscriptText(parseIn)
  /\ parsePc' = "done"
  /\ UNCHANGED <<bgVars, analysed, histVars, variant, tabKind, page, pc,
                 pageUrl, idx, log, lastResp, ytStatus, ytError, contentLen,
                 posted, loadingShown, btnDisabled, errorMsg, resultsShown,
                 closed, parseIn>>

NextJson3 == ParseJson3

SpecJson3 == InitJson3 /\ [][NextJson3]_vars

---------------------------------------------------------------------------
(* parseXmlTranscript on its own                                           *)

\* el.textContent of <text> nodes: plain, whitespace only, padded, with a
\* line break inside, empty
NodeTexts ==
  { << "a" >>, << " ", " " >>, << " ", "b", " " >>, << "a", "\n", "b" >>, << >> }

\* doc.querySelectorAll('text')
NodeLists(n) == UNION {[1..k -> NodeTexts] : k \in 0..n}

\* Boolean(string): the empty string is falsy
NonEmpty(str) == str # << >>

\* .map(el => el.textContent.trim()).filter(Boolean).join(' ')
\* .replace(/\s+/g, ' ').trim()
parseXmlTranscriptText(nodes) ==
  LET trimmed == [i \in 1..Len(nodes) |-> Trim(nodes[i])]
  IN Trim(CollapseWs(JoinSp(SelectSeq(trimmed, NonEmpty))))

InitXml ==
  /\ variant = "popup"
  /\ tabKind = "youtube"
  /\ page = Absent
  /\ InitRun
  /\ parsePc = "ready"
  /\ parseIn \in NodeLists(MaxNodes)
  /\ parseOut = << >>

\* const text = parseXmlTranscript(await resp.text())
ParseXml ==
  /\ parsePc = "ready"
  /\ parseOut' = parseXmlTranscriptText(parseIn)
  /\ parsePc' = "done"
  /\ UNCHANGED <<bgVars, analysed, histVars, variant, tabKind, page, pc,
                 pageUrl, idx, log, lastResp, ytStatus, ytError, contentLen,
                 posted, loadingShown, btnDisabled, errorMsg, resultsShown,
                 closed, parseIn>>

NextXml == ParseXml

SpecXml == InitXml /\ [][NextXml]_vars

---------------------------------------------------------------------------
(* Vocabulary of the properties                                            *)

\* the ways a completed request can have failed
Failures == {"reject", "status", "parsefail", "short"}

InFlight == {i \in 1..Len(log) : log[i].outcome = "inflight"}

\* the candidates of this call that were never requested
Untried ==
  Candidates(variant, pageUrl) \
    {[log[i] EXCEPT !.outcome = "inflight"] : i \in 1..Len(log)}

IsEndpoint(e) == e.target = "endpoint"
EndpointLog == SelectSeq(log, IsEndpoint)

CallOver == ytStatus \in {"returned", "threw"}

\* the Locator has run (executeScript resolved) in this call
Located == ytStatus # "none" /\ pc # "inject"

\* index of the first human-authored 'en' track, 0 if there is none
FirstManualEn(p) ==
  IF \E i \in 1..Len(p.tracks) :
       p.tracks[i].languageCode = "en" /\ p.tracks[i].kind = "manual"
    THEN CHOOSE i \in 1..Len(p.tracks) :
           /\ p.tracks[i].languageCode = "en" /\ p.tracks[i].kind = "manual"
           /\ \A j \in 1..(i-1) :
                ~(p.tracks[j].languageCode = "en" /\ p.tracks[j].kind = "manual")
    ELSE 0

\* the result of selecting track i: its URL, or null when it has none
UrlOf(p, i) == IF p.tracks[i].hasUrl THEN i ELSE 0

---------------------------------------------------------------------------
(* C1 *)
\* C1: a rejected request or a non-success status never ends the call by
\* itself: after such a failure the next candidate is requested whenever
\* one is left, and a usable response makes the call return without error.
C1_AttemptsIndependent ==
  /\ \A i \in 1..Len(log) :
       log[i].outcome \in {"reject", "status"} =>
         (i < Len(log) \/ Untried = {})
  /\ (log # << >> /\ log[Len(log)].outcome = "usable") =>
       (ytStatus = "returned" /\ ytError = "")

---------------------------------------------------------------------------
(* C2 *)
\* C2: per call at most one request yields usable text, and it is the last
\* request of the call: nothing is requested after it.
C2_AtMostOneSuccess ==
  /\ \A i \in 1..Len(log) : log[i].outcome = "usable" => i = Len(log)
  /\ ytStatus = "returned" => (InFlight = {} /\ log[Len(log)].outcome = "usable")

\* a call that succeeded at its third candidate, with probes left untried
C2_Witness ==
  /\ ytStatus = "returned"
  /\ Len(log) = 3
  /\ Untried # {}

---------------------------------------------------------------------------
(* C3 *)
\* C3 (as claimed): with a page URL the first request is the page URL with
\* fmt=json3; if it fails by rejection or status the second is the same URL
\* with the XML format; endpoint probes come third at the earliest.
C3_JsonThenXmlThenProbe ==
  (pageUrl # 0 /\ log # << >>) =>
    /\ log[1].target = "page" /\ log[1].fmt = "json3"
    /\ log[1].outcome \in {"reject", "status"} =>
         (Len(log) >= 2 /\ log[2].target = "page" /\ log[2].fmt = "xml")
    /\ \A i \in 1..Len(log) : log[i].target = "endpoint" => i >= 3

\* C3 (amended): with a page URL the first request is the page URL, once,
\* in the one format of the script (xml in popup.js, json3 in part_002);
\* every later request is an endpoint probe, made only after the page
\* request has failed.
C3_PageUrlOnceThenProbe ==
  (pageUrl # 0 /\ log # << >>) =>
    /\ log[1].target = "page"
    /\ log[1].fmt = (IF variant = "popup" THEN "xml" ELSE "json3")
    /\ \A i \in 2..Len(log) :
         log[i].target = "endpoint" /\ log[1].outcome \in Failures

\* popup.js probing the endpoint after the page URL request failed
C3_Witness ==
  /\ pageUrl # 0
  /\ Len(log) >= 2
  /\ log[1].target = "page"
  /\ log[1].outcome \in {"reject", "status"}
  /\ log[2].target = "endpoint"

---------------------------------------------------------------------------
(* C4 *)
\* C4: the endpoint probes of a call are the four (language, kind)
\* combinations in their fixed order, each at most once, and the probing
\* stops only at a usable response or when all four have been tried.
C4_FourProbesInOrder ==
  /\ Len(EndpointLog) <= Len(attempts)
  /\ \A i \in 1..Len(EndpointLog) :
       /\ EndpointLog[i].lang = attempts[i].lang
       /\ EndpointLog[i].kind = attempts[i].kind
  /\ (CallOver /\ EndpointLog # << >>) =>
       \/ EndpointLog[Len(EndpointLog)].outcome = "usable"
       \/ Len(EndpointLog) = Len(attempts)

---------------------------------------------------------------------------
(* C5 *)
\* C5: when every request of the call has failed, the call has ended by
\* throwing and handed back no text; text reaches the handler and the
\* backend only from a usable response, and it is that response's text.
C5_ExhaustionReturnsNoText ==
  /\ (log # << >> /\ \A i \in 1..Len(log) : log[i].outcome \in Failures) =>
       /\ ytStatus = "threw"
       /\ ytError # ""
       /\ variant = "popup" => ytError = MsgNoCaptions
       /\ contentLen = 0
       /\ posted = 0
  /\ ytStatus = "returned" =>
       /\ log[Len(log)].outcome = "usable"
       /\ contentLen = lastResp.len
       /\ contentLen >= MinLen
  /\ (isYouTubeUrl(tabKind) /\ posted > 0) => ytStatus = "returned"

\* popup.js: all five candidates failed, the last with text one character
\* short of the threshold
C5_Witness ==
  /\ variant = "popup"
  /\ ytStatus = "threw"
  /\ Len(log) = 5
  /\ lastResp.ok
  /\ lastResp.len = MinLen - 1

---------------------------------------------------------------------------
(* C6 *)
\* C6: at most one caption request of a call is in flight, and every
\* request before the last one has completed and failed.
C6_Sequential ==
  /\ Cardinality(InFlight) <= 1
  /\ \A i \in 1..(Len(log) - 1) : log[i].outcome \in Failures

\* the fifth request of a call in flight after four failures
C6_Witness ==
  /\ Len(log) = 5
  /\ log[5].outcome = "inflight"

---------------------------------------------------------------------------
(* C7 *)
\* C7: when captionTracks holds a human-authored 'en' track, the Locator
\* selects the first such track, wherever other tracks stand: it returns
\* that track's URL (null only if that very track has none).
C7_ManualEnglishSelected ==
  (Located /\ page.shape = "tracks" /\ FirstManualEn(page) # 0) =>
    pageUrl = UrlOf(page, FirstManualEn(page))

\* a manual 'en' track in third place, behind an auto-generated 'en' track
C7_Witness ==
  /\ Located
  /\ page.shape = "tracks"
  /\ Len(page.tracks) = 3
  /\ page.tracks[1].languageCode = "fr"
  /\ page.tracks[2].languageCode = "en" /\ page.tracks[2].kind = "asr"
  /\ page.tracks[2].hasUrl
  /\ pageUrl = 3

---------------------------------------------------------------------------
---------------------------------------------------------------------------
(* C9 *)
\* C9: with an empty, absent or malformed track structure the Locator
\* returns null, no request goes to a page-provided URL, and the first
\* request of the call is the first probe of the timed-text endpoint.
C9_NoneFoundGoesToEndpoint ==
  (Located /\ NoTracks(page)) =>
    /\ pageUrl = 0
    /\ log # << >>
    /\ \A i \in 1..Len(log) : log[i].target = "endpoint"
    /\ log[1].lang = "en" /\ log[1].kind = "manual"

\* a malformed page structure, and the first endpoint probe in flight
C9_Witness ==
  /\ page.shape = "malformed"
  /\ pc = "awaitCaption"
  /\ Len(log) = 1
  /\ log[1].target = "endpoint"

---------------------------------------------------------------------------
(* C10 *)
\* C10: a body that cannot be parsed in its declared format never ends the
\* call with an error while a candidate is left untried.
C10_MalformedTriesNext ==
  (/\ lastResp.net = "resolve"
   /\ lastResp.ok
   /\ ~lastResp.wellFormed
   /\ Untried # {}) =>
    ytStatus # "threw"

---------------------------------------------------------------------------
(* C11 *)
\* C11: a failed call for a video without any discoverable caption track
\* and a failed call whose captions were found but could not be retrieved
\* or parsed never end with the same displayed message.
C11_FailureKindsDistinguished == shownNone \cap shownFound = {}

---------------------------------------------------------------------------
(* C12 *)
\* the body of the last response was parsed (DOMParser never throws;
\* resp.json() throws on a body that is no JSON)
Parsed == lastResp.net = "resolve" /\ lastResp.ok /\
          (variant = "popup" \/ lastResp.wellFormed)

\* the error a call ends with when its last candidate gave too little text
TooShortError == IF variant = "popup" THEN MsgNoCaptions ELSE MsgNoUsableCaptions

---------------------------------------------------------------------------
(* C13 *)
\* C13: on a YouTube URL from which no video id can be extracted, a run
\* ends with the 'Could not parse a YouTube video ID' error before anything
\* else happens: no script is injected (the Locator never runs), no caption
\* request is issued and /analyse is not posted.
C13_NoVideoIdStopsEarly ==
  tabKind = "youtube_noid" =>
    /\ pc \in {"idle", "query"}
    /\ ytStatus = "none"
    /\ pageUrl = 0
    /\ log = << >>
    /\ posted = 0
    /\ analysed = "none"
    /\ ~loadingShown
    /\ errorMsg \in {"", MsgNoVideoId}

\* a run on such a URL has ended with the error shown
C13_Witness ==
  /\ tabKind = "youtube_noid"
  /\ pc = "idle"
  /\ errorMsg = MsgNoVideoId

---------------------------------------------------------------------------
(* Words: what C14 and C15 compare the parsers' results with               *)

\* the positions where a run of non-whitespace characters begins
WordStarts(str) ==
  {i \in 1..Len(str) : ~IsWs(str[i]) /\ (i = 1 \/ IsWs(str[i - 1]))}

\* the last position of the run that begins at i
WordEnd(str, i) ==
  CHOOSE j \in i..Len(str) :
    /\ \A k \in i..j : ~IsWs(str[k])
    /\ j = Len(str) \/ IsWs(str[j + 1])

\* the maximal runs of non-whitespace characters of str, in order
RECURSIVE WordsOf(_)
WordsOf(str) ==
  IF WordStarts(str) = {} THEN << >>
  ELSE LET i == CHOOSE a \in WordStarts(str) : \A b \in WordStarts(str) : a <= b
           j == WordEnd(str, i)
       IN << SubSeq(str, i, j) >> \o WordsOf(SubSeq(str, j + 1, Len(str)))

\* the strings of ws with exactly one space between neighbours
RECURSIVE SpaceSeparated(_)
SpaceSeparated(ws) ==
  IF ws = << >> THEN << >>
  ELSE IF Len(ws) = 1 THEN ws[1]
  ELSE ws[1] \o << " " >> \o SpaceSeparated(Tail(ws))

\* the segment texts of the events that have segs, in order, the segments
\* of one event run together and a gap after every event
RECURSIVE AllSegText(_)
AllSegText(events) ==
  IF events = << >> THEN << >>
  ELSE (IF Head(events).hasSegs THEN Concat(Head(events).segs) \o << " " >>
                                ELSE << >>)
       \o AllSegText(Tail(events))

\* the text contents of the nodes, in order, a gap after every node
RECURSIVE AllNodeText(_)
AllNodeText(nodes) ==
  IF nodes = << >> THEN << >>
  ELSE Head(nodes) \o << " " >> \o AllNodeText(Tail(nodes))

---------------------------------------------------------------------------
(* C14 *)
\* C14 as stated: the result is the segment texts of the events that have
\* segs, newlines turned into spaces, the events joined by single spaces
\* and every whitespace run collapsed to one space (and nothing more).
C14_JoinedAndCollapsed ==
  parsePc = "done" =>
    LET kept == SelectSeq(parseIn, HasSegs)
    IN parseOut =
         CollapseWs(JoinSp([i \in 1..Len(kept) |-> EventText(kept[i])]))

\* C14, amended: the result is, in addition, trimmed. It consists of the
\* words of the segment texts of the events that have segs, in order, with
\* exactly one space between two words and no whitespace before the first
\* or after the last.
C14_JoinedCollapsedTrimmed ==
  parsePc = "done" =>
    parseOut = SpaceSeparated(WordsOf(AllSegText(parseIn)))

\* the example of the claim, "a " for "Hello " and "\nb" for "world."
C14_Witness ==
  /\ parsePc = "done"
  /\ parseIn = << [hasSegs |-> TRUE, segs |-> << << "a", " " >> >>],
                  [hasSegs |-> TRUE, segs |-> << << "\n", "b" >> >>],
                  [hasSegs |-> FALSE, segs |-> << >>] >>
  /\ parseOut = << "a", " ", "b" >>

---------------------------------------------------------------------------
(* C15 *)
\* C15 as stated: the result is the trimmed text contents of the nodes, in
\* document order, the empty ones dropped, joined by single spaces.
C15_TrimmedJoined ==
  parsePc = "done" =>
    parseOut = SpaceSeparated(
                 SelectSeq([i \in 1..Len(parseIn) |-> Trim(parseIn[i])], NonEmpty))

\* C15, amended: whitespace inside a node is collapsed as well. The result
\* consists of the words of the nodes' text contents, in document order,
\* with exactly one space between two words.
C15_TrimmedJoinedCollapsed ==
  parsePc = "done" =>
    parseOut = SpaceSeparated(WordsOf(AllNodeText(parseIn)))

\* the example of the claim followed by a node with a line break inside
C15_Witness ==
  /\ parsePc = "done"
  /\ parseIn = << << "a" >>, << " ", " " >>, << "a", "\n", "b" >> >>
  /\ parseOut = << "a", " ", "a", " ", "b" >>

---------------------------------------------------------------------------
(* C16 *)
\* C16: when fetchYouTubeTranscript threw, the message displayed is not
\* "Cannot connect to backend", and when POST /analyse succeeded the user
\* is not told that the backend cannot be reached.
C16_CaptionFailureNotBackendFailure ==
  /\ ytStatus = "threw" => errorMsg # MsgCannotConnect
  /\ analysed = "ok" => errorMsg # MsgCannotConnect

---------------------------------------------------------------------------
(* C17 *)
\* the handler runs that have started and not yet shown results or an error
RunsInProgress == (IF RunInProgress THEN 1 ELSE 0) + queued

\* C17: at most one analysis run is in progress at any time.
C17_AtMostOneRun == RunsInProgress <= 1

---------------------------------------------------------------------------
(* C18 *)
\* C18: from the state in which checkServer found the backend offline on,
\* the analyse button is disabled.
C18_OfflineKeepsDisabled == serverOffline => btnDisabled

---------------------------------------------------------------------------
(* C19 *)
\* C19: /analyse is posted at most once in a run, and only with content
\* text of the minimum length: a transcript of at least 50 characters that
\* fetchYouTubeTranscript returned, or article text of at least 100
\* characters; after a failed caption resolution nothing is posted.
C19_PostOnlyWithEnoughText ==
  /\ posted <= 1
  /\ posted > 0 =>
       IF isYouTubeUrl(tabKind)
         THEN ytStatus = "returned" /\ contentLen >= MinLen
         ELSE contentLen >= MinArticleLen
  /\ ytStatus = "threw" => (posted = 0 /\ analysed = "none")
  /\ pc \in {"awaitAnalyse", "awaitSidebar"} => posted = 1
  /\ analysed # "none" => posted = 1

\* a transcript of exactly 50 characters has been posted
C19_Witness ==
  /\ tabKind = "youtube"
  /\ pc = "awaitAnalyse"
  /\ posted = 1
  /\ contentLen = MinLen

---------------------------------------------------------------------------
(* C20 *)
\* a step of the run that is followed: one of its awaited calls settles
HandlerStep ==
  \/ QueryNoVideoId \/ QueryYouTube \/ QueryArticle
  \/ ArticleTooShort \/ ArticleFound
  \/ ExecuteScript
  \/ CaptionUsable \/ CaptionNext \/ CaptionExhausted \/ CaptionThrow
  \/ AnalyseRejected \/ AnalyseNotOk \/ AnalyseOk
  \/ SidebarShown \/ SidebarRejected

\* the caption requests of a run are bounded: at most one to the page URL,
\* and then at most the four endpoint probes (popup.js), one request in all
\* (part_002)
BoundedRequests ==
  /\ Len(log) <= (IF variant = "popup" THEN 1 + Len(attempts) ELSE 1)
  /\ Cardinality({i \in 1..Len(log) : log[i].target = "page"}) <= 1
  /\ Len(EndpointLog) <= Len(attempts)

\* a run in progress can always take its next step, a waiting run is taken
\* up once the popup is idle, and the loading indicator is displayed only
\* while a run is in progress (or the popup has been closed)
NeverStuck ==
  /\ RunInProgress => ENABLED HandlerStep
  /\ (queued > 0 /\ ~RunInProgress /\ ~closed) => ENABLED Resume
  /\ (loadingShown /\ ~closed) => RunInProgress

\* this step is the last of the run that is followed
RunEnds == RunInProgress /\ pc' = "idle"

===========================================================================
